---- MODULE Spec2Model ----
(***************************************************************************)
(* A model of the CCC core: the JSON-RPC client (ClientJsonRpc), the       *)
(* Hasher and the Bitcoin signer (SignerBtc).                              *)
(*                                                                         *)
(*   Spec         concurrent send calls of one ClientJsonRpc              *)
(*   SpecPayload  buildSender / buildPayload as pure functions             *)
(*   SpecHasher   one Hasher instance and the ckbHash function             *)
(*   SpecSigner   SignerBtc.signOnlyTransaction                            *)
(***************************************************************************)
EXTENDS Integers, Sequences, FiniteSets, TLC

VARIABLES call, cache, bs, hs, sg, ud, pk, ti, ss

vars == <<call, cache, bs, hs, sg, ud, pk, ti, ss>>

(***************************************************************************)
(* Bounds of the model.                                                    *)
(***************************************************************************)
NumCalls == 2
MaxArgs == 3
MaxBytes == 3
MaxInputs == 2
MaxAfter == 2

Calls == 1..NumCalls

\* The sequences over S of length at most n.
RECURSIVE SeqsUpTo(_, _)
SeqsUpTo(S, n) ==
  IF n = 0 THEN {<<>>}
  ELSE LET shorter == SeqsUpTo(S, n - 1)
       IN  shorter \cup {Append(q, x) : q \in {r \in shorter : Len(r) = n - 1}, x \in S}

(***************************************************************************)
(* JavaScript values.  A value is a record [t, v, n]: its type tag, its    *)
(* text and its number.  An error object of the node is                    *)
(* [t |-> "object", v |-> message, n |-> code]; an exception is tagged by  *)
(* its class.                                                              *)
(***************************************************************************)
V(t, v, n) == [t |-> t, v |-> v, n |-> n]
Undefined == V("undefined", "", 0)
JStr(s) == V("string", s, 0)
JNum(n) == V("number", "", n)
JErr(code, message) == V("object", message, code)
Exception(class, message) == V(class, message, 0)

\* JavaScript truthiness, as `if (res.error)` applies it.
Truthy(x) ==
  ~ \/ x.t \in {"undefined", "null"}
    \/ x.t = "number" /\ x.n = 0
    \/ x.t = "string" /\ x.v = ""
    \/ x.t = "boolean" /\ x.v = "false"

\* The nullish-coalescing operator `a ?? b`.
Coalesce(a, b) == IF a.t \in {"undefined", "null"} THEN b ELSE a

(***************************************************************************)
(* Numbers that may carry a fraction (the correlation ids).  frac is in    *)
(* hundredths: [int |-> 2, frac |-> 50] is 2.5.                            *)
(***************************************************************************)
Num(i, f) == [t |-> "number", int |-> i, frac |-> f]
NoId == [t |-> "undefined", int |-> 0, frac |-> 0]

IsInteger(x) == x.t = "number" /\ x.frac = 0

\* Math.round on a non-negative number: halves round up.
MathRound(x) == Num(IF x.frac >= 50 THEN x.int + 1 ELSE x.int, 0)

(***************************************************************************)
(* numToHex: "0x" followed by the number in base 16.                       *)
(***************************************************************************)
HexDigit(d) == <<"0", "1", "2", "3", "4", "5", "6", "7",
                 "8", "9", "a", "b", "c", "d", "e", "f">>[d + 1]

RECURSIVE HexDigits(_)
HexDigits(n) ==
  IF n < 16 THEN HexDigit(n) ELSE HexDigits(n \div 16) \o HexDigit(n % 16)

numToHex(x) ==
  IF x.t = "number"
    THEN [ok |-> TRUE, val |-> V("Hex", "0x" \o HexDigits(x.n), 0)]
    ELSE [ok |-> FALSE, val |-> Exception("SyntaxError", "Cannot convert to BigInt")]

(***************************************************************************)
(* The transformers of ./advanced, ../../hex and ../../num: each converts  *)
(* a value to its wire or domain form and throws on a value it cannot      *)
(* convert.  The text "bad" stands for an unconvertible value.             *)
(***************************************************************************)
Converts(kind, x) ==
  IF x.t = "string" /\ x.v # "bad"
    THEN [ok |-> TRUE, val |-> V(kind, x.v, 0)]
    ELSE [ok |-> FALSE, val |-> Exception("Error", "Invalid " \o kind)]

ApplyTransformer(name, x) ==
  CASE name = "transactionFrom" -> Converts("JsonRpcTransaction", x)
    [] name = "hexFrom" -> Converts("Hex", x)
    [] name = "indexerSearchKeyFrom" -> Converts("JsonRpcSearchKey", x)
    [] name = "orderDefault" -> [ok |-> TRUE, val |-> Coalesce(x, JStr("asc"))]
    [] name = "limitToHex" -> numToHex(Coalesce(x, JNum(10)))
    [] name = "transactionResponseTo" -> [ok |-> TRUE, val |-> V("ClientTransactionResponse", x.v, x.n)]
    [] name = "findCellsResponseTo" -> [ok |-> TRUE, val |-> V("ClientFindCellsResponse", x.v, x.n)]
    [] name = "capacityToNum" -> [ok |-> TRUE, val |-> V("Num", x.v, x.n)]

\* transform(value, transformer): the value itself when there is no transformer.
transform(x, transformer) ==
  IF transformer # "none" THEN ApplyTransformer(transformer, x)
  ELSE [ok |-> TRUE, val |-> x]

(***************************************************************************)
(* The senders of ClientJsonRpc, as buildSender is called for them.        *)
(***************************************************************************)
sendTransactionNoCache ==
  [rpcMethod |-> "send_transaction",
   inTransformers |-> <<"transactionFrom">>,
   outTransformer |-> "hexFrom"]

getTransactionNoCache ==
  [rpcMethod |-> "get_transaction",
   inTransformers |-> <<"hexFrom">>,
   outTransformer |-> "transactionResponseTo"]

findCellsPagedNoCache ==
  [rpcMethod |-> "get_cells",
   inTransformers |-> <<"indexerSearchKeyFrom", "orderDefault", "limitToHex">>,
   outTransformer |-> "findCellsResponseTo"]

getCellsCapacity ==
  [rpcMethod |-> "get_cells_capacity",
   inTransformers |-> <<"indexerSearchKeyFrom">>,
   outTransformer |-> "capacityToNum"]

Senders ==
  {sendTransactionNoCache, getTransactionNoCache, findCellsPagedNoCache,
   getCellsCapacity}

Max(a, b) == IF a >= b THEN a ELSE b

\* The arguments taken without the padding.
PadArgsNone(req, inTransformers) == req

\* req.concat(Array.from(new Array(Math.max(inTransformers.length - req.length, 0))))
PadArgs(req, inTransformers) ==
  req \o [i \in 1..Max(Len(inTransformers) - Len(req), 0) |-> Undefined]

TransformerAt(inTransformers, i) ==
  IF i <= Len(inTransformers) THEN inTransformers[i] ELSE "none"

\* .map((v, i) => transform(v, inTransformers[i])) under Promise.all
TransformArgs(req, inTransformers) ==
  LET padded == PadArgs(req, inTransformers)
  IN  [i \in 1..Len(padded) |-> transform(padded[i], TransformerAt(inTransformers, i))]

AllOk(results) == \A i \in 1..Len(results) : results[i].ok

\* Promise.all rejects with the failure of the first promise that rejected.
FirstFailure(results) ==
  LET bad == {i \in 1..Len(results) : ~results[i].ok}
      first == CHOOSE i \in bad : \A j \in bad : i <= j
  IN  results[first].val

Unwrap(results) == [i \in 1..Len(results) |-> results[i].val]

(***************************************************************************)
(* ClientJsonRpc.buildPayload.  random10000 is Math.random() * 10000.      *)
(***************************************************************************)
\* buildPayload with the rounding left out.
buildPayloadNoRound(method, req, random10000) ==
  [id |-> random10000,
   method |-> method,
   params |-> req,
   jsonrpc |-> "2.0"]

buildPayload(method, req, random10000) ==
  [id |-> MathRound(random10000),
   method |-> method,
   params |-> req,
   jsonrpc |-> "2.0"]

NoPayload == [id |-> NoId, method |-> "", params |-> <<>>, jsonrpc |-> ""]

\* The values Math.random() * 10000 is drawn from: [0, 10000).
RandomDraws ==
  {Num(0, 0), Num(0, 50), Num(2, 50), Num(7, 0), Num(42, 49), Num(9999, 75)}

(***************************************************************************)
(* send, lines 196-202: what a parsed response body becomes.               *)
(***************************************************************************)
NoOutcome == [kind |-> "none", value |-> Undefined]
Return(x) == [kind |-> "return", value |-> x]
Throw(x) == [kind |-> "throw", value |-> x]

IdMismatchError == Exception("Error", "Id mismatched")

\* The response handling with the error check made before the id check.
HandleResponseErrorFirst(res, payload) ==
  IF Truthy(res.error) THEN Throw(res.error)
  ELSE IF res.id # payload.id THEN Throw(IdMismatchError)
  ELSE Return(res.result)

\* The response handling with the error check left out.
HandleResponseNoErrorCheck(res, payload) ==
  IF res.id # payload.id THEN Throw(IdMismatchError)
  ELSE Return(res.result)

\* The response handling with the id check left out.
HandleResponseNoIdCheck(res, payload) ==
  IF Truthy(res.error) THEN Throw(res.error)
  ELSE Return(res.result)

HandleResponse(res, payload) ==
  IF res.id # payload.id THEN Throw(IdMismatchError)
  ELSE IF Truthy(res.error) THEN Throw(res.error)
  ELSE Return(res.result)

\* buildSender, line 164: the out transformer is applied to what send returns.
SenderOutcome(sent, outTransformer) ==
  IF sent.kind = "return"
    THEN LET r == transform(sent.value, outTransformer)
         IN  IF r.ok THEN Return(r.val) ELSE Throw(r.val)
    ELSE sent

(***************************************************************************)
(* The cached wrappers of Client: a wrapper calls its no-cache primitive   *)
(* and records what it returned.  Every call of the model is made through  *)
(* its wrapper.                                                            *)
(***************************************************************************)
CacheRecord(entries, c, payload, outcome) ==
  IF outcome.kind = "return"
    THEN entries \cup {[by |-> c, method |-> payload.method, value |-> outcome.value]}
    ELSE entries

(***************************************************************************)
(* One send call.                                                          *)
(*   pc            idle, fetching (awaiting fetch), reading (awaiting      *)
(*                 raw.json()), settled                                    *)
(*   timerPending  abortTimer is set and neither fired nor cleared         *)
(*   aborted       aborter.signal.aborted                                  *)
(*   expired       this.timeout has elapsed since the call began           *)
(*   requests      HTTP requests issued for the call                       *)
(*   lateSettle    the call settled after its timeout had elapsed          *)
(***************************************************************************)
NoResponse == [id |-> NoId, error |-> Undefined, result |-> Undefined]

IdleCall ==
  [pc |-> "idle", sender |-> getTransactionNoCache,
   payload |-> NoPayload, timerPending |-> FALSE, aborted |-> FALSE,
   expired |-> FALSE, requests |-> 0, gotResponse |-> FALSE,
   response |-> NoResponse, outcome |-> NoOutcome, lateSettle |-> FALSE]

\* The calls the concurrent specification issues.
CallSenders == {getTransactionNoCache}
CallArgs == {<<JStr("h1")>>, <<JStr("bad")>>}
CallRandoms == {Num(2, 50), Num(7, 0)}

NodeError == JErr(-32000, "rejected")

\* The bodies a node may answer with.
Responses ==
  {[id |-> i, error |-> e.error, result |-> e.result] :
     i \in {Num(3, 0), Num(7, 0), NoId},
     e \in {[error |-> Undefined, result |-> JStr("r1")],
            [error |-> NodeError, result |-> Undefined],
            [error |-> JNum(0), result |-> JStr("r1")]}}

Settle(c, outcome) ==
  /\ call' = [call EXCEPT ![c].pc = "settled",
                          ![c].outcome = outcome,
                          ![c].lateSettle = call[c].expired]
  /\ cache' = CacheRecord(cache, c, call[c].payload, outcome)

\* buildSender's closure up to the first wait of send: the arguments are
\* transformed, the payload built, the abort timer set and fetch called.
Invoke(c, sender, req, random10000) ==
  /\ call[c].pc = "idle"
  /\ LET results == TransformArgs(req, sender.inTransformers)
     IN  IF AllOk(results)
           THEN /\ call' = [call EXCEPT
                     ![c].pc = "fetching",
                     ![c].sender = sender,
                     ![c].payload = buildPayload(sender.rpcMethod, Unwrap(results), random10000),
                     ![c].timerPending = TRUE,
                     ![c].requests = call[c].requests + 1]
                /\ cache' = cache
           ELSE /\ call' = [call EXCEPT
                     ![c].pc = "settled",
                     ![c].sender = sender,
                     ![c].outcome = Throw(FirstFailure(results))]
                /\ cache' = cache
  /\ UNCHANGED <<bs, hs, sg, ud, pk, ti, ss>>

\* fetch resolves with the response headers; line 189 clears the timer.
HeadersArrive(c) ==
  /\ call[c].pc = "fetching"
  /\ call' = [call EXCEPT ![c].pc = "reading", ![c].timerPending = FALSE]
  /\ UNCHANGED <<cache, bs, hs, sg, ud, pk, ti, ss>>

\* A network failure answered by issuing the request again.
NetworkFailRetry(c) ==
  /\ call[c].pc = "fetching"
  /\ call[c].requests < 3
  /\ call' = [call EXCEPT ![c].requests = call[c].requests + 1]
  /\ UNCHANGED <<cache, bs, hs, sg, ud, pk, ti, ss>>

\* fetch rejects with a network failure; nothing catches it.
NetworkFail(c) ==
  /\ call[c].pc = "fetching"
  /\ Settle(c, Throw(Exception("TypeError", "fetch failed")))
  /\ UNCHANGED <<bs, hs, sg, ud, pk, ti, ss>>

\* raw.json() resolves with the parsed body.
BodyArrive(c, res) ==
  /\ call[c].pc = "reading"
  /\ LET sent == HandleResponse(res, call[c].payload)
         outcome == SenderOutcome(sent, call[c].sender.outTransformer)
     IN  /\ call' = [call EXCEPT ![c].pc = "settled",
                                 ![c].gotResponse = TRUE,
                                 ![c].response = res,
                                 ![c].outcome = outcome,
                                 ![c].lateSettle = call[c].expired]
         /\ cache' = CacheRecord(cache, c, call[c].payload, outcome)
  /\ UNCHANGED <<bs, hs, sg, ud, pk, ti, ss>>

\* raw.json() rejects: the body is not JSON.
BodyFail(c) ==
  /\ call[c].pc = "reading"
  /\ Settle(c, Throw(Exception("SyntaxError", "Unexpected token")))
  /\ UNCHANGED <<bs, hs, sg, ud, pk, ti, ss>>

\* The timeout of call c with one AbortController shared by every call.
TimeoutElapsesShared(c) ==
  /\ call[c].pc # "idle"
  /\ ~call[c].expired
  /\ call' = [d \in Calls |->
       IF d = c
         THEN [call[d] EXCEPT
                 !.expired = TRUE, !.timerPending = FALSE, !.aborted = TRUE,
                 !.pc = IF call[d].pc = "fetching" THEN "settled" ELSE call[d].pc,
                 !.outcome = IF call[d].pc = "fetching"
                               THEN Throw(Exception("AbortError", "The operation was aborted"))
                               ELSE call[d].outcome]
         ELSE IF call[d].pc = "fetching"
           THEN [call[d] EXCEPT
                   !.aborted = TRUE, !.pc = "settled",
                   !.outcome = Throw(Exception("AbortError", "The operation was aborted"))]
           ELSE call[d]]
  /\ UNCHANGED <<cache, bs, hs, sg, ud, pk, ti, ss>>

\* this.timeout elapses for call c.  A timer that is still pending runs
\* aborter.abort(), and a fetch still awaited then rejects with AbortError.
\* A due timer runs before any later network event of its call.
TimeoutElapses(c) ==
  /\ call[c].pc # "idle"
  /\ ~call[c].expired
  /\ IF call[c].timerPending
       THEN IF call[c].pc = "fetching"
              THEN /\ call' = [call EXCEPT
                        ![c].expired = TRUE,
                        ![c].timerPending = FALSE,
                        ![c].aborted = TRUE,
                        ![c].pc = "settled",
                        ![c].outcome = Throw(Exception("AbortError", "The operation was aborted")),
                        ![c].lateSettle = TRUE]
                   /\ cache' = cache
              ELSE /\ call' = [call EXCEPT
                        ![c].expired = TRUE,
                        ![c].timerPending = FALSE,
                        ![c].aborted = TRUE]
                   /\ cache' = cache
       ELSE /\ call' = [call EXCEPT ![c].expired = TRUE]
            /\ cache' = cache
  /\ UNCHANGED <<bs, hs, sg, ud, pk, ti, ss>>

(***************************************************************************)
(* The idle state of the payload specification.                            *)
(***************************************************************************)
BsIdle == [pc |-> "idle", sender |-> getTransactionNoCache, req |-> <<>>,
           random10000 |-> Num(0, 0), params |-> <<>>, payload |-> NoPayload,
           failure |-> Undefined, outcome |-> NoOutcome, response |-> NoResponse]

(***************************************************************************)
(* The idle states of the demo's flows and of the lock packing.            *)
(***************************************************************************)
UdIdle == [pc |-> "idle"]
PkIdle == [pc |-> "idle"]
TiIdle == [pc |-> "idle"]
SsIdle == [pc |-> "idle"]

(***************************************************************************)
(* SignerBtc.  A transaction is [inputs, outputs, outputsData, cellDeps,   *)
(* headerDeps, witnesses].  An input carries the lock of the cell it       *)
(* spends, as the client resolves it.  A witness is held decoded:          *)
(* [raw, lock, inputType, outputType], raw telling that its bytes are no   *)
(* WitnessArgs: an empty witness, which setWitnessArgsAt pads with and    *)
(* getWitnessArgsAt reads as absent.                                       *)
(***************************************************************************)
SignerScript == "OmniLock(04 pubkeyhash 00)"
OtherScript == "Secp256k1Blake160(other)"

Locks == {SignerScript, OtherScript}

Zeros(n) == [i \in 1..n |-> 0]

\* prepareSighashAllWitness(script, 85, client) reserves a lock of 85 bytes.
PlaceholderLock == Zeros(85)

WitnessOf(lock, inputType) ==
  [raw |-> FALSE, lock |-> lock, inputType |-> inputType, outputType |-> ""]
RawWitness == [raw |-> TRUE, lock |-> <<>>, inputType |-> "", outputType |-> ""]

WitnessChoices ==
  {WitnessOf(PlaceholderLock, ""), WitnessOf(PlaceholderLock, "0xaa"), RawWitness}

\* The cell dep of KnownScript.OmniLock, as the client knows it.
OmniLockDep == "OmniLockDep"

CellDepChoices == {<<>>, <<OmniLockDep>>}

TxOf(locks, witnesses, cellDeps) ==
  [inputs |-> [i \in 1..Len(locks) |-> [previousOutput |-> i, lock |-> locks[i]]],
   outputs |-> <<"output0">>,
   outputsData |-> <<"0x">>,
   cellDeps |-> cellDeps,
   headerDeps |-> <<>>,
   witnesses |-> witnesses]

Transactions ==
  {TxOf(locks, witnesses, cellDeps) :
     locks \in SeqsUpTo(Locks, MaxInputs),
     witnesses \in SeqsUpTo(WitnessChoices, MaxInputs),
     cellDeps \in CellDepChoices}

NoTx == TxOf(<<>>, <<>>, <<>>)

\* numToBytes(n, 4): four bytes, little-endian.
Pow256(i) == IF i = 0 THEN 1 ELSE IF i = 1 THEN 256 ELSE IF i = 2 THEN 65536 ELSE 16777216
numToBytes4(n) == [i \in 1..4 |-> (n \div Pow256(i - 1)) % 256]

\* The remainder operator of JavaScript: the sign of the dividend.
JsRem(a, m) == IF a >= 0 THEN a % m ELSE -((-a) % m)

\* A store into a Uint8Array wraps modulo 256.
ToUint8(x) == x % 256

\* line 331: signature[0] = 31 + ((signature[0] - 27) % 4)
AdjustRecoveryId(signature) ==
  [signature EXCEPT ![1] = ToUint8(31 + JsRem(signature[1] - 27, 4))]

\* lines 334-343 with the total length taken for that of the header.
PackLockHeaderOnly(signature) ==
  numToBytes4(4 * 4)
    \o numToBytes4(4 * 4)
    \o numToBytes4(5 * 4 + Len(signature))
    \o numToBytes4(5 * 4 + Len(signature))
    \o numToBytes4(Len(signature))
    \o signature

\* lines 334-343: the lock packed around the signature.
PackLock(signature) ==
  numToBytes4(5 * 4 + Len(signature))
    \o numToBytes4(4 * 4)
    \o numToBytes4(5 * 4 + Len(signature))
    \o numToBytes4(5 * 4 + Len(signature))
    \o numToBytes4(Len(signature))
    \o signature

\* The signatures the key provider may return, base64-decoded: n bytes,
\* the first of them v.  A compact Bitcoin signature is the recovery byte
\* and 64 bytes of r and s; signMessageRaw is abstract and line 325 takes
\* whatever bytes the text decodes to.
SignatureOf(v, n) == <<v>> \o [i \in 1..(n - 1) |-> 17]
Signatures ==
  {SignatureOf(v, 65) : v \in {0, 27, 30, 31, 34}} \cup {SignatureOf(28, 64)}

SigningPrefix == "CKB (Bitcoin Layer) transaction: "

\* Transaction.getSignHashInfo(script, client): the position of the first
\* input locked by script and the sighash-all digest of its group: the
\* transaction hash and the witnesses of the group.  Absent when no input
\* is locked by script.
OwnedPositions(tx, script) ==
  {i \in 1..Len(tx.inputs) : tx.inputs[i].lock = script}

NoInfo == [found |-> FALSE, position |-> 0, message |-> <<>>]

getSignHashInfo(tx, script) ==
  LET owned == OwnedPositions(tx, script)
  IN  IF owned = {} THEN NoInfo
      ELSE [found |-> TRUE,
            position |-> CHOOSE i \in owned : \A j \in owned : i <= j,
            message |->
              <<[inputs |-> tx.inputs, outputs |-> tx.outputs,
                 outputsData |-> tx.outputsData, cellDeps |-> tx.cellDeps,
                 headerDeps |-> tx.headerDeps],
                [i \in {j \in owned : j <= Len(tx.witnesses)} |-> tx.witnesses[i]]>>]

\* tx.setWitnessArgsAt(position, witness): the witnesses are extended with
\* empty ones up to the position.
setWitnessArgsAt(tx, position, witness) ==
  LET n == Max(Len(tx.witnesses), position)
  IN  [tx EXCEPT !.witnesses =
         [i \in 1..n |-> IF i = position THEN witness
                         ELSE IF i <= Len(tx.witnesses) THEN tx.witnesses[i]
                         ELSE RawWitness]]

\* What a call of the signer comes to: what it returns or throws, the
\* state of the transaction object it worked on, and the texts it handed
\* to the key provider.
SignerReturn(tx, requests) ==
  [kind |-> "return", tx |-> tx, object |-> tx, requests |-> requests]
SignerThrow(class, tx, requests) ==
  [kind |-> "throw", tx |-> NoTx, object |-> tx, requests |-> requests, class |-> class]

\* lines 321-323 with a failure in place of the return.
NothingToSignThrows(tx) == SignerThrow("NothingToSign", tx, <<>>)

\* lines 321-323 with the key provider asked before the return.
NothingToSignAsks(tx) == SignerReturn(tx, <<[prefix |-> SigningPrefix, message |-> <<>>]>>)

\* lines 321-323: no input of the signer, the transaction is returned.
NothingToSign(tx) == SignerReturn(tx, <<>>)

\* The outcomes of the calls the signer waits for: the address lookup
\* (getRecommendedAddressObj), the lookup of the known script
\* (addCellDepsOfKnownScripts), the resolution of the inputs' cells
\* (getSignHashInfo, prepareSighashAllWitness) and the key provider
\* (signMessageRaw).
SignerEnvs ==
  [address : {"ok", "fail"}, deps : {"ok", "fail"}, resolve : {"ok", "fail"},
   signature : Signatures \cup {<<>>}]

\* What signOnlyTransaction waits for: no known script is looked up.
SignEnvs == {env \in SignerEnvs : env.deps = "ok"}

\* What prepareTransaction waits for: the key provider is not asked.
PrepareEnvs == {env \in SignerEnvs : env.signature = <<>>}

\* lines 327-329 with the bare message of the sign hash info.
SigningTextBare(message) == [prefix |-> "", message |-> message]

\* lines 327-329: the text handed to signMessageRaw, the prefix and the
\* message of the sign hash info.
SigningText(message) == [prefix |-> SigningPrefix, message |-> message]

\* lines 333-344 with a fresh witness in place of the decoded one.
SignedWitnessFresh(witness, lock) == WitnessOf(lock, "")

\* lines 333-344: the witness decoded, its lock replaced.
SignedWitness(witness, lock) == [witness EXCEPT !.lock = lock]

\* tx.addCellDepsOfKnownScripts(client, script): the cell dep of the script
\* is added unless the transaction has it.
addCellDepsOfKnownScripts(tx, dep) ==
  IF \E i \in 1..Len(tx.cellDeps) : tx.cellDeps[i] = dep THEN tx
  ELSE [tx EXCEPT !.cellDeps = Append(tx.cellDeps, dep)]

\* tx.getWitnessArgsAt(position): absent for a missing or empty witness.
getWitnessArgsAt(tx, position) ==
  IF position > Len(tx.witnesses) \/ tx.witnesses[position].raw
    THEN WitnessOf(<<>>, "")
    ELSE tx.witnesses[position]

\* tx.prepareSighashAllWitness(script, lockLen, client): the witness of the
\* first input locked by script gets a lock of lockLen zero bytes; nothing
\* is done when no input is locked by script.
prepareSighashAllWitness(tx, script, lockLen) ==
  LET owned == OwnedPositions(tx, script)
  IN  IF owned = {} THEN tx
      ELSE LET position == CHOOSE i \in owned : \A j \in owned : i <= j
               witness == [getWitnessArgsAt(tx, position) EXCEPT !.lock = Zeros(lockLen)]
           IN  setWitnessArgsAt(tx, position, witness)

\* SignerBtc.prepareTransaction(txLike) on the transaction tx under the
\* outcomes env.  The cell dep is added to tx before the inputs are
\* resolved.
prepareTransaction(tx, env) ==
  IF env.address = "fail" THEN SignerThrow("AddressLookup", tx, <<>>)
  ELSE IF env.deps = "fail" THEN SignerThrow("CellDepResolution", tx, <<>>)
  ELSE LET withDeps == addCellDepsOfKnownScripts(tx, OmniLockDep)
       IN  IF env.resolve = "fail" /\ tx.inputs # <<>>
             THEN SignerThrow("InputResolution", withDeps, <<>>)
             ELSE SignerReturn(
                    prepareSighashAllWitness(withDeps, SignerScript, Len(PlaceholderLock)),
                    <<>>)

\* SignerBtc.signOnlyTransaction(txLike) on the transaction tx under the
\* outcomes env; an empty env.signature is the provider rejecting.
signOnlyTransaction(tx, env) ==
  IF env.address = "fail" THEN SignerThrow("AddressLookup", tx, <<>>)
  ELSE IF env.resolve = "fail" /\ tx.inputs # <<>>
    THEN SignerThrow("InputResolution", tx, <<>>)
  ELSE LET info == getSignHashInfo(tx, SignerScript)
           text == SigningText(info.message)
       IN  IF ~info.found THEN NothingToSign(tx)
           ELSE IF env.signature = <<>>
             THEN SignerThrow("ProviderRejected", tx, <<text>>)
           ELSE IF info.position > Len(tx.witnesses) \/ tx.witnesses[info.position].raw
             THEN SignerThrow("WitnessDecoding", tx, <<text>>)
           ELSE LET signature == AdjustRecoveryId(env.signature)
                    witness == SignedWitness(tx.witnesses[info.position],
                                             PackLock(signature))
                IN  SignerReturn(setWitnessArgsAt(tx, info.position, witness), <<text>>)

(***************************************************************************)
(* SpecSigner: a call of prepareTransaction, a call of                     *)
(* signOnlyTransaction, or the second on what the first returned.  sg      *)
(* holds the transaction given to the last call, whether it is a           *)
(* Transaction instance (Transaction.from then hands back the very         *)
(* object), the outcomes of the awaited calls, the result, the state of    *)
(* the caller's object after the call, and whether signOnlyTransaction was *)
(* given the transaction prepareTransaction returned.                      *)
(***************************************************************************)
SgOf(tx, instance) ==
  [pc |-> "ready", txLike |-> tx, instance |-> instance,
   env |-> [address |-> "ok", deps |-> "ok", resolve |-> "ok", signature |-> <<>>],
   result |-> SignerReturn(NoTx, <<>>), callerTx |-> tx, prepared |-> FALSE]

SgIdle == SgOf(NoTx, FALSE)

(***************************************************************************)
(* The Hasher.  The blake2b package is modelled at a reduced scale: blocks *)
(* of BlockBytes bytes (128 in the package), a one-byte chaining value and *)
(* a one-byte digest.  A context is [h, b, t, finalized]: the chaining     *)
(* value, the buffered block, the bytes counted and the flag that only the *)
(* WebAssembly backend keeps.                                              *)
(***************************************************************************)
BlockBytes == 2

Bytes == {0, 255}

RECURSIVE Concat(_)
Concat(chunks) ==
  IF chunks = <<>> THEN <<>> ELSE Head(chunks) \o Concat(Tail(chunks))

RECURSIVE WeightedSum(_, _)
WeightedSum(block, i) ==
  IF i > Len(block) THEN 0 ELSE block[i] * (2 * i + 1) + WeightedSum(block, i + 1)

\* The compression function: mixes a block, the byte count and the
\* last-block flag into the chaining value.
Compress(h, block, t, last) ==
  (h * 33 + WeightedSum(block, 1) + 7 * t + (IF last THEN 13 ELSE 0)) % 256

\* blake2b(outLength, undefined, undefined, personal): the chaining value
\* starts from the parameter block.
blake2bInit(outLength, personal) ==
  [h |-> (outLength * 5 + personal) % 256, b |-> <<>>, t |-> 0, finalized |-> FALSE]

\* CKB_BLAKE2B_PERSONAL, as a number.
CkbPersonal == 99

RECURSIVE blake2bUpdate(_, _)
blake2bUpdate(ctx, input) ==
  IF input = <<>> THEN ctx
  ELSE LET flushed ==
             IF Len(ctx.b) = BlockBytes
               THEN [ctx EXCEPT !.t = ctx.t + BlockBytes,
                                !.h = Compress(ctx.h, ctx.b, ctx.t + BlockBytes, FALSE),
                                !.b = <<>>]
               ELSE ctx
       IN  blake2bUpdate([flushed EXCEPT !.b = Append(flushed.b, Head(input))], Tail(input))

ZeroPad(b) == b \o [i \in 1..(BlockBytes - Len(b)) |-> 0]

\* blake2bFinal: the last block is padded with zeros and compressed.
blake2bFinal(ctx) ==
  LET t == ctx.t + Len(ctx.b)
      b == ZeroPad(ctx.b)
  IN  [ctx EXCEPT !.t = t, !.b = b, !.h = Compress(ctx.h, b, t, TRUE)]

HexByte(n) == HexDigit(n \div 16) \o HexDigit(n % 16)

\* new Hasher(): outLength 32 and the CKB personalisation.  wasm tells
\* which backend the blake2b package runs: its WebAssembly backend refuses
\* every call on a finalized instance, its JavaScript backend has no such
\* check.
NewHasher(wasm) == [wasm |-> wasm, hasher |-> blake2bInit(32, CkbPersonal)]

\* Hasher.update with the earlier state thrown away.
updateFresh(self, data) ==
  [ok |-> TRUE,
   self |-> [self EXCEPT !.hasher = blake2bUpdate(blake2bInit(32, CkbPersonal), data)]]

\* Hasher.update(data): data is a byte array, which bytesFrom passes on.
update(self, data) ==
  IF self.wasm /\ self.hasher.finalized
    THEN [ok |-> FALSE, self |-> self]
    ELSE [ok |-> TRUE, self |-> [self EXCEPT !.hasher = blake2bUpdate(self.hasher, data)]]

\* Hasher.digest(): "0x" and the digest in hex.
digest(self) ==
  IF self.wasm /\ self.hasher.finalized
    THEN [ok |-> FALSE, self |-> self, hex |-> ""]
    ELSE LET final == blake2bFinal(self.hasher)
         IN  [ok |-> TRUE,
              self |-> [self EXCEPT !.hasher = [final EXCEPT !.finalized = self.wasm]],
              hex |-> "0x" \o HexByte(final.h)]

RECURSIVE UpdateAll(_, _)
UpdateAll(self, data) ==
  IF data = <<>> THEN self
  ELSE UpdateAll(update(self, Head(data)).self, Tail(data))

\* ckbHash(...data)
ckbHash(data, wasm) == digest(UpdateAll(NewHasher(wasm), data)).hex

(***************************************************************************)
(* SpecHasher: one Hasher instance.  hs records the chunks it was fed      *)
(* before its first digest, that digest, and the calls it accepted after   *)
(* it.                                                                     *)
(***************************************************************************)
Chunks == SeqsUpTo(Bytes, BlockBytes)

HsNew(wasm) ==
  [self |-> NewHasher(wasm), chunks |-> <<>>, digests |-> 0, first |-> "",
   last |-> "", threw |-> FALSE, after |-> 0]

HsIdle == HsNew(TRUE)

InitHasher ==
  /\ ti = TiIdle
  /\ ss = SsIdle
  /\ ud = UdIdle
  /\ pk = PkIdle
  /\ call = [c \in Calls |-> IdleCall]
  /\ cache = {}
  /\ bs = BsIdle
  /\ sg = SgIdle
  /\ \E wasm \in BOOLEAN : hs = HsNew(wasm)

\* hasher.update(data) on the instance.
HasherUpdate(data) ==
  /\ Len(hs.chunks) < MaxBytes
  /\ Len(Concat(hs.chunks)) + Len(data) <= MaxBytes
  /\ hs.after < MaxAfter
  /\ hs.digests = 0 \/ Len(data) = 1
  /\ LET r == update(hs.self, data)
     IN  hs' = IF ~r.ok THEN [hs EXCEPT !.threw = TRUE]
               ELSE IF hs.digests = 0
                 THEN [hs EXCEPT !.self = r.self, !.chunks = Append(hs.chunks, data)]
                 ELSE [hs EXCEPT !.self = r.self, !.after = hs.after + 1]
  /\ UNCHANGED <<call, cache, bs, sg, ud, pk, ti, ss>>

\* hasher.digest() on the instance.
HasherDigest ==
  /\ hs.after < MaxAfter
  /\ LET r == digest(hs.self)
     IN  hs' = IF ~r.ok THEN [hs EXCEPT !.threw = TRUE]
               ELSE IF hs.digests = 0
                 THEN [hs EXCEPT !.self = r.self, !.digests = 1, !.first = r.hex,
                                 !.last = r.hex]
                 ELSE [hs EXCEPT !.self = r.self, !.digests = hs.digests + 1,
                                 !.last = r.hex, !.after = hs.after + 1]
  /\ UNCHANGED <<call, cache, bs, sg, ud, pk, ti, ss>>

NextHasher ==
  \/ \E data \in Chunks : HasherUpdate(data)
  \/ HasherDigest

SpecHasher == InitHasher /\ [][NextHasher]_vars

InitSigner ==
  /\ ti = TiIdle
  /\ ss = SsIdle
  /\ ud = UdIdle
  /\ pk = PkIdle
  /\ call = [c \in Calls |-> IdleCall]
  /\ cache = {}
  /\ bs = BsIdle
  /\ hs = HsIdle
  /\ \E tx \in Transactions, instance \in BOOLEAN : sg = SgOf(tx, instance)

\* signer.prepareTransaction(txLike).
Prepare(env) ==
  /\ sg.pc = "ready"
  /\ LET r == prepareTransaction(sg.txLike, env)
     IN  sg' = [sg EXCEPT !.pc = "prepared", !.env = env, !.result = r,
                          !.callerTx = IF sg.instance THEN r.object ELSE sg.txLike]
  /\ UNCHANGED <<call, cache, bs, hs, ud, pk, ti, ss>>

\* signer.signOnlyTransaction(txLike).
SignOnly(env) ==
  /\ sg.pc = "ready"
  /\ LET r == signOnlyTransaction(sg.txLike, env)
     IN  sg' = [sg EXCEPT !.pc = "done", !.env = env, !.result = r,
                          !.callerTx = IF sg.instance THEN r.object ELSE sg.txLike]
  /\ UNCHANGED <<call, cache, bs, hs, ud, pk, ti, ss>>

\* signer.signOnlyTransaction(tx), tx the Transaction that
\* prepareTransaction returned.
SignPrepared(env) ==
  /\ sg.pc = "prepared"
  /\ sg.result.kind = "return"
  /\ LET r == signOnlyTransaction(sg.result.tx, env)
     IN  sg' = [sg EXCEPT !.pc = "done", !.txLike = sg.result.tx, !.instance = TRUE,
                          !.prepared = TRUE, !.env = env, !.result = r,
                          !.callerTx = r.object]
  /\ UNCHANGED <<call, cache, bs, hs, ud, pk, ti, ss>>

NextSigner ==
  \/ \E env \in PrepareEnvs : Prepare(env)
  \/ \E env \in SignEnvs : SignOnly(env)
  \/ \E env \in SignEnvs : SignPrepared(env)

SpecSigner == InitSigner /\ [][NextSigner]_vars

(***************************************************************************)
(* The xUDT transfer of the demo.  A cell is [lock, type, data]; a         *)
(* transaction of the flow is [inputs, outputs, outputsData], the inputs   *)
(* held as the cells they spend.  The balance field of the token is        *)
(* modelled at a reduced width: BalanceBytes bytes (16 in the demo),       *)
(* little-endian.                                                          *)
(***************************************************************************)
BalanceBytes == 1
MaxCells == 3

\* The bytes of n from the lowest, as many as n needs: one for 0.
RECURSIVE LeBytes(_)
LeBytes(n) == IF n < 256 THEN <<n>> ELSE <<n % 256>> \o LeBytes(n \div 256)

\* ccc.numLeToBytes(n, bytes): padded with zeros up to bytes, never cut.
numLeToBytes(n, bytes) ==
  LET raw == LeBytes(n)
  IN  raw \o Zeros(Max(bytes - Len(raw), 0))

\* The number in the leading bytes of data, little-endian.
RECURSIVE LeNum(_, _)
LeNum(data, bytes) ==
  IF bytes = 0 THEN 0 ELSE data[1] + 256 * LeNum(Tail(data), bytes - 1)

\* The balance that a cell's data encodes: its leading balance field.
udtBalanceFrom(data) == LeNum(data, BalanceBytes)

xUdtType == "XUdt(xUdtArgs)"
toScript == "toScript"
change == "change"

UdtCell(balance) ==
  [lock |-> change, type |-> xUdtType, data |-> numLeToBytes(balance, BalanceBytes)]

\* lines 414-422: the transaction the flow starts from.
TransferTx(amount) ==
  [inputs |-> <<>>,
   outputs |-> <<[lock |-> toScript, type |-> xUdtType]>>,
   outputsData |-> <<numLeToBytes(amount, BalanceBytes)>>]

RECURSIVE SumOver(_, _)
SumOver(S, f) ==
  IF S = {} THEN 0
  ELSE LET i == CHOOSE j \in S : TRUE IN f[i] + SumOver(S \ {i}, f)

\* tx.getInputsUdtBalance(client, type), tx.getOutputsUdtBalance(type).
getInputsUdtBalance(tx, type) ==
  SumOver({i \in 1..Len(tx.inputs) : tx.inputs[i].type = type},
          [i \in 1..Len(tx.inputs) |-> udtBalanceFrom(tx.inputs[i].data)])

getOutputsUdtBalance(tx, type) ==
  SumOver({i \in 1..Len(tx.outputs) : tx.outputs[i].type = type},
          [i \in 1..Len(tx.outputs) |-> udtBalanceFrom(tx.outputsData[i])])

\* tx.completeInputsByUdt(signer, type): the payer's cells of the token are
\* appended in the order found until the inputs cover the outputs; the
\* call fails when the cells are exhausted before.
RECURSIVE CollectUdt(_, _, _)
CollectUdt(tx, cells, type) ==
  IF getInputsUdtBalance(tx, type) >= getOutputsUdtBalance(tx, type)
    THEN [ok |-> TRUE, tx |-> tx]
  ELSE IF cells = <<>> THEN [ok |-> FALSE, tx |-> tx]
  ELSE CollectUdt([tx EXCEPT !.inputs = Append(tx.inputs, Head(cells))],
                  Tail(cells), type)

completeInputsByUdt(tx, cells, type) == CollectUdt(tx, cells, type)

\* tx.addOutput(output, data).
addOutput(tx, output, data) ==
  [tx EXCEPT !.outputs = Append(tx.outputs, output),
             !.outputsData = Append(tx.outputsData, data)]

\* lines 424-426.
BalanceDiff(tx) == getInputsUdtBalance(tx, xUdtType) - getOutputsUdtBalance(tx, xUdtType)

\* lines 427-435 with the change output added whatever the difference.
AddChangeAlways(tx) ==
  addOutput(tx, [lock |-> change, type |-> xUdtType],
            numLeToBytes(Max(BalanceDiff(tx), 0), BalanceBytes))

\* lines 427-435: the change output, when the inputs exceed the outputs.
AddChange(tx) ==
  IF BalanceDiff(tx) > 0
    THEN addOutput(tx, [lock |-> change, type |-> xUdtType],
                   numLeToBytes(BalanceDiff(tx), BalanceBytes))
    ELSE tx

\* The amounts typed in and the balances of the payer's cells.
Amounts == {0, 1, 2, 3, 5, 300}
CellBalances == {1, 2, 200}

(***************************************************************************)
(* SpecUdt: the transfer flow up to the change output.  ud holds the       *)
(* payer's token cells as the client finds them, the amount, and the       *)
(* transaction before and after each step.                                 *)
(***************************************************************************)
InitUdt ==
  /\ ti = TiIdle
  /\ ss = SsIdle
  /\ call = [c \in Calls |-> IdleCall]
  /\ cache = {}
  /\ bs = BsIdle
  /\ hs = HsIdle
  /\ sg = SgIdle
  /\ pk = PkIdle
  /\ \E amount \in Amounts, balances \in SeqsUpTo(CellBalances, MaxCells) :
       ud = [pc |-> "built", amount |-> amount,
             cells |-> [i \in 1..Len(balances) |-> UdtCell(balances[i])],
             tx |-> TransferTx(amount), completed |-> TransferTx(amount)]

\* line 423.
CompleteInputsByUdt ==
  /\ ud.pc = "built"
  /\ LET r == completeInputsByUdt(ud.tx, ud.cells, xUdtType)
     IN  ud' = IF r.ok THEN [ud EXCEPT !.pc = "completed", !.tx = r.tx, !.completed = r.tx]
               ELSE [ud EXCEPT !.pc = "failed"]
  /\ UNCHANGED <<call, cache, bs, hs, sg, pk, ti, ss>>

\* lines 424-435.
ChangeOutput ==
  /\ ud.pc = "completed"
  /\ ud' = [ud EXCEPT !.pc = "changed", !.tx = AddChange(ud.tx)]
  /\ UNCHANGED <<call, cache, bs, hs, sg, pk, ti, ss>>

NextUdt ==
  \/ CompleteInputsByUdt
  \/ ChangeOutput

SpecUdt == InitUdt /\ [][NextUdt]_vars

(***************************************************************************)
(* SpecLock: lines 331-343 on a signature alone.  pk holds the signature   *)
(* as decoded from the provider's text, then with its first byte           *)
(* rewritten, then the lock packed around it.                              *)
(***************************************************************************)
SignatureLengths == {1, 64, 65, 66}

InitLock ==
  /\ ti = TiIdle
  /\ ss = SsIdle
  /\ call = [c \in Calls |-> IdleCall]
  /\ cache = {}
  /\ bs = BsIdle
  /\ hs = HsIdle
  /\ sg = SgIdle
  /\ ud = UdIdle
  /\ \E v \in 0..255, n \in SignatureLengths :
       pk = [pc |-> "decoded", signature |-> SignatureOf(v, n),
             adjusted |-> <<>>, lock |-> <<>>]

\* line 331.
Adjust ==
  /\ pk.pc = "decoded"
  /\ pk' = [pk EXCEPT !.pc = "adjusted", !.adjusted = AdjustRecoveryId(pk.signature)]
  /\ UNCHANGED <<call, cache, bs, hs, sg, ud, ti, ss>>

\* lines 334-343.
Pack ==
  /\ pk.pc = "adjusted"
  /\ pk' = [pk EXCEPT !.pc = "packed", !.lock = PackLock(pk.adjusted)]
  /\ UNCHANGED <<call, cache, bs, hs, sg, ud, ti, ss>>

NextLock ==
  \/ Adjust
  \/ Pack

SpecLock == InitLock /\ [][NextLock]_vars

(***************************************************************************)
(* The balancer on capacity, as the flows of the demo call it.  A live     *)
(* cell of the payer is [outPoint, capacity]; a transaction of these flows *)
(* is [inputs, outputs], the inputs held as the cells they spend, an       *)
(* output being [lock, type, capacity].  The fee is one unit for every     *)
(* input and every output: the size of the transaction at the fee rate of  *)
(* the demo.                                                               *)
(***************************************************************************)
FreeCells(capacities) ==
  [i \in 1..Len(capacities) |-> [outPoint |-> i, capacity |-> capacities[i]]]

InputsCapacity(tx) ==
  SumOver(1..Len(tx.inputs), [i \in 1..Len(tx.inputs) |-> tx.inputs[i].capacity])

OutputsCapacity(tx) ==
  SumOver(1..Len(tx.outputs), [i \in 1..Len(tx.outputs) |-> tx.outputs[i].capacity])

\* The cells of the payer that tx does not spend yet, in the order found.
Unspent(tx, cells) ==
  LET fresh(c) == \A i \in 1..Len(tx.inputs) : tx.inputs[i].outPoint # c.outPoint
  IN  SelectSeq(cells, fresh)

RECURSIVE CollectCapacity(_, _, _)
CollectCapacity(tx, cells, extra) ==
  IF InputsCapacity(tx) >= OutputsCapacity(tx) + extra THEN [ok |-> TRUE, tx |-> tx]
  ELSE IF cells = <<>> THEN [ok |-> FALSE, tx |-> tx]
  ELSE CollectCapacity([tx EXCEPT !.inputs = Append(tx.inputs, Head(cells))],
                       Tail(cells), extra)

\* tx.completeInputsByCapacity(signer): cells of the payer are appended in
\* the order found until the inputs cover the outputs; the call fails when
\* the cells are exhausted before.
completeInputsByCapacity(tx, cells) == CollectCapacity(tx, Unspent(tx, cells), 0)

\* The fee of tx once it has a change output.
FeeWithChange(tx) == Len(tx.inputs) + Len(tx.outputs) + 1

\* tx.completeFeeChangeToLock(signer, change, feeRate): inputs are appended
\* until they cover the outputs, the fee and a change cell of one unit at
\* least; the change output is appended.
RECURSIVE CollectFee(_, _, _)
CollectFee(tx, cells, changeLock) ==
  LET leftover == InputsCapacity(tx) - OutputsCapacity(tx)
  IN  IF leftover >= FeeWithChange(tx) + 1
        THEN [ok |-> TRUE,
              tx |-> [tx EXCEPT !.outputs =
                        Append(tx.outputs,
                               [lock |-> changeLock, type |-> "",
                                capacity |-> leftover - FeeWithChange(tx)])]]
      ELSE IF cells = <<>> THEN [ok |-> FALSE, tx |-> tx]
      ELSE CollectFee([tx EXCEPT !.inputs = Append(tx.inputs, Head(cells))],
                      Tail(cells), changeLock)

completeFeeChangeToLock(tx, cells, changeLock) ==
  CollectFee(tx, Unspent(tx, cells), changeLock)

CellCapacities == {1, 5, 20}

(***************************************************************************)
(* The Type ID creation of the demo.                                       *)
(***************************************************************************)
\* "00".repeat(32), at the scale of the digest.
ZeroArgs == "0x00"

TypeIdScript(args) == [codeHash |-> "TypeId", args |-> args]

\* lines 614-625: the transaction the flow starts from; the cell takes two
\* units of capacity.
TypeIdTx ==
  [inputs |-> <<>>,
   outputs |-> <<[lock |-> change, type |-> TypeIdScript(ZeroArgs), capacity |-> 2]>>]

\* CellInput.toBytes(): the since and the out point.
InputBytes(input) == <<0, input.outPoint>>

\* lines 630-633 with the last input in place of the first.
TypeIdArgsOfLast(tx) ==
  ckbHash(<<InputBytes(tx.inputs[Len(tx.inputs)]), numLeToBytes(0, 8)>>, TRUE)

\* lines 630-633: the hash of the first input and of the output index 0.
TypeIdArgsOf(tx) ==
  ckbHash(<<InputBytes(tx.inputs[1]), numLeToBytes(0, 8)>>, TRUE)

(***************************************************************************)
(* SpecTypeId: the Type ID creation up to the send.  ti holds the payer's  *)
(* cells, the transaction, the transaction as it was when the args were    *)
(* set, and the transaction sent.                                          *)
(***************************************************************************)
InitTypeId ==
  /\ call = [c \in Calls |-> IdleCall]
  /\ cache = {}
  /\ bs = BsIdle
  /\ hs = HsIdle
  /\ sg = SgIdle
  /\ ud = UdIdle
  /\ pk = PkIdle
  /\ ss = SsIdle
  /\ \E capacities \in SeqsUpTo(CellCapacities, MaxCells) :
       ti = [pc |-> "built", cells |-> FreeCells(capacities), tx |-> TypeIdTx,
             typed |-> TypeIdTx, sent |-> TypeIdTx]

\* line 626.
TypeIdCompleteInputs ==
  /\ ti.pc = "built"
  /\ LET r == completeInputsByCapacity(ti.tx, ti.cells)
     IN  ti' = IF r.ok THEN [ti EXCEPT !.pc = "completed", !.tx = r.tx]
               ELSE [ti EXCEPT !.pc = "failed"]
  /\ UNCHANGED <<call, cache, bs, hs, sg, ud, pk, ss>>

\* lines 627-633.
TypeIdSetArgs ==
  /\ ti.pc = "completed"
  /\ LET tx == [ti.tx EXCEPT !.outputs[1].type.args = TypeIdArgsOf(ti.tx)]
     IN  ti' = [ti EXCEPT !.pc = "typed", !.tx = tx, !.typed = tx]
  /\ UNCHANGED <<call, cache, bs, hs, sg, ud, pk, ss>>

\* line 634.
TypeIdCompleteFee ==
  /\ ti.pc = "typed"
  /\ LET r == completeFeeChangeToLock(ti.tx, ti.cells, change)
     IN  ti' = IF r.ok THEN [ti EXCEPT !.pc = "balanced", !.tx = r.tx]
               ELSE [ti EXCEPT !.pc = "failed"]
  /\ UNCHANGED <<call, cache, bs, hs, sg, ud, pk, ss>>

\* lines 635-638.
TypeIdSend ==
  /\ ti.pc = "balanced"
  /\ ti' = [ti EXCEPT !.pc = "sent", !.sent = ti.tx]
  /\ UNCHANGED <<call, cache, bs, hs, sg, ud, pk, ss>>

NextTypeId ==
  \/ TypeIdCompleteInputs
  \/ TypeIdSetArgs
  \/ TypeIdCompleteFee
  \/ TypeIdSend

SpecTypeId == InitTypeId /\ [][NextTypeId]_vars

(***************************************************************************)
(* The single-use-seal issuance of the demo.  An out point is              *)
(* [txHash, index]; the hash of a transaction is kept as what it is        *)
(* computed from, and the cells the payer starts with come from the empty  *)
(* hash.  The client keeps the cells of the payer it knows, the out points *)
(* it holds unusable, and the node the out points spent.                   *)
(***************************************************************************)
OutPoint(txHash, index) == [txHash |-> txHash, index |-> index]

\* line 481: the lock of the signer's recommended address.
script == [codeHash |-> "OmniLock", args |-> <<>>]

LiveCells(capacities) ==
  [i \in 1..Len(capacities) |->
     [outPoint |-> OutPoint(<<>>, i), capacity |-> capacities[i]]]

TxHash(tx) ==
  <<[inputs |-> [i \in 1..Len(tx.inputs) |-> tx.inputs[i].outPoint],
     outputs |-> tx.outputs]>>

\* The cell that output number index (from 0) of tx creates.
CellOf(tx, index) ==
  [outPoint |-> OutPoint(TxHash(tx), index), capacity |-> tx.outputs[index + 1].capacity]

InputOutPoints(tx) == {tx.inputs[i].outPoint : i \in 1..Len(tx.inputs)}

\* The cells findCells yields for the payer: those the client does not
\* hold unusable.
UsableCells(cells, unusable) ==
  LET usable(c) == c.outPoint \notin unusable
  IN  SelectSeq(cells, usable)

\* The cells of the payer that tx creates, in the order of its outputs.
RECURSIVE PayerCellsFrom(_, _)
PayerCellsFrom(tx, index) ==
  IF index >= Len(tx.outputs) THEN <<>>
  ELSE (IF tx.outputs[index + 1].lock = script /\ tx.outputs[index + 1].type = ""
          THEN <<CellOf(tx, index)>> ELSE <<>>)
       \o PayerCellsFrom(tx, index + 1)

\* lines 483-489, 505-511: a transaction with one plain output of two units.
OneOutputTx(lock) ==
  [inputs |-> <<>>, outputs |-> <<[lock |-> lock, type |-> "", capacity |-> 2]>>]

\* lines 496-503: the single-use lock over the seal's out point.
singleUseLock(susTx) ==
  [codeHash |-> "SingleUseLock", args |-> <<OutPoint(TxHash(susTx), 0)>>]

\* lines 517-544: the mint names the seal, then the owner cell.
MintTx(susTx, lockTx) ==
  [inputs |-> <<CellOf(susTx, 0), CellOf(lockTx, 0)>>,
   outputs |-> <<[lock |-> script, type |-> "XUdt(singleUseLock.hash())", capacity |-> 2]>>]

\* completeInputsByCapacity and completeFeeChangeToLock, one after the
\* other, over the cells findCells yields.
Balance(tx, cells, unusable) ==
  LET completed == completeInputsByCapacity(tx, UsableCells(cells, unusable))
  IN  IF ~completed.ok THEN completed
      ELSE completeFeeChangeToLock(completed.tx, UsableCells(cells, unusable), script)

NoFlowTx == [inputs |-> <<>>, outputs |-> <<>>]

(***************************************************************************)
(* SpecSeal: the issuance from the seal transaction to the mint.  ss holds *)
(* the cells and the unusable out points of the client, the out points the *)
(* node has seen spent, the three transactions and the names of those sent *)
(* in the order of their sends.                                            *)
(***************************************************************************)
InitSeal ==
  /\ call = [c \in Calls |-> IdleCall]
  /\ cache = {}
  /\ bs = BsIdle
  /\ hs = HsIdle
  /\ sg = SgIdle
  /\ ud = UdIdle
  /\ pk = PkIdle
  /\ ti = TiIdle
  /\ \E capacities \in SeqsUpTo(CellCapacities, MaxCells) :
       ss = [pc |-> "start", cells |-> LiveCells(capacities), unusable |-> {},
             spent |-> {}, susTx |-> NoFlowTx, lockTx |-> NoFlowTx,
             mintTx |-> NoFlowTx, sent |-> <<>>]

\* signer.sendTransaction(tx): the node rejects a transaction one of whose
\* inputs is spent; the client marks the inputs of a transaction sent
\* unusable and learns the cells it creates for the payer.
FlowSend(state, tx, name, pc) ==
  IF InputOutPoints(tx) \cap state.spent # {} THEN [state EXCEPT !.pc = "failed"]
  ELSE [state EXCEPT !.pc = pc,
                     !.spent = state.spent \cup InputOutPoints(tx),
                     !.unusable = state.unusable \cup InputOutPoints(tx),
                     !.cells = PayerCellsFrom(tx, 0) \o state.cells,
                     !.sent = Append(state.sent, name)]

\* lines 483-491.
SusBalance ==
  /\ ss.pc = "start"
  /\ LET r == Balance(OneOutputTx(script), ss.cells, ss.unusable)
     IN  ss' = IF r.ok THEN [ss EXCEPT !.pc = "susBalanced", !.susTx = r.tx]
               ELSE [ss EXCEPT !.pc = "failed"]
  /\ UNCHANGED <<call, cache, bs, hs, sg, ud, pk, ti>>

\* lines 492-493.
SusSend ==
  /\ ss.pc = "susBalanced"
  /\ ss' = FlowSend(ss, ss.susTx, "susTx", "susSent")
  /\ UNCHANGED <<call, cache, bs, hs, sg, ud, pk, ti>>

\* line 494 left out.
MarkSealSkipped ==
  /\ ss.pc = "susSent"
  /\ ss' = [ss EXCEPT !.pc = "sealMarked"]
  /\ UNCHANGED <<call, cache, bs, hs, sg, ud, pk, ti>>

\* line 494: markUnusable({ txHash: susTxHash, index: 0 }).
MarkSealUnusable ==
  /\ ss.pc = "susSent"
  /\ ss' = [ss EXCEPT !.pc = "sealMarked",
                      !.unusable = ss.unusable \cup {OutPoint(TxHash(ss.susTx), 0)}]
  /\ UNCHANGED <<call, cache, bs, hs, sg, ud, pk, ti>>

\* lines 496-513.
LockBalance ==
  /\ ss.pc = "sealMarked"
  /\ LET r == Balance(OneOutputTx(singleUseLock(ss.susTx)), ss.cells, ss.unusable)
     IN  ss' = IF r.ok THEN [ss EXCEPT !.pc = "lockBalanced", !.lockTx = r.tx]
               ELSE [ss EXCEPT !.pc = "failed"]
  /\ UNCHANGED <<call, cache, bs, hs, sg, ud, pk, ti>>

\* lines 514-515.
LockSend ==
  /\ ss.pc = "lockBalanced"
  /\ ss' = FlowSend(ss, ss.lockTx, "lockTx", "lockSent")
  /\ UNCHANGED <<call, cache, bs, hs, sg, ud, pk, ti>>

\* lines 517-551.
MintBalance ==
  /\ ss.pc = "lockSent"
  /\ LET r == Balance(MintTx(ss.susTx, ss.lockTx), ss.cells, ss.unusable)
     IN  ss' = IF r.ok THEN [ss EXCEPT !.pc = "mintBalanced", !.mintTx = r.tx]
               ELSE [ss EXCEPT !.pc = "failed"]
  /\ UNCHANGED <<call, cache, bs, hs, sg, ud, pk, ti>>

\* lines 552-555.
MintSend ==
  /\ ss.pc = "mintBalanced"
  /\ ss' = FlowSend(ss, ss.mintTx, "mintTx", "mintSent")
  /\ UNCHANGED <<call, cache, bs, hs, sg, ud, pk, ti>>

NextSeal ==
  \/ SusBalance
  \/ SusSend
  \/ MarkSealUnusable
  \/ LockBalance
  \/ LockSend
  \/ MintBalance
  \/ MintSend

SpecSeal == InitSeal /\ [][NextSeal]_vars

Init ==
  /\ ti = TiIdle
  /\ ss = SsIdle
  /\ ud = UdIdle
  /\ pk = PkIdle
  /\ call = [c \in Calls |-> IdleCall]
  /\ cache = {}
  /\ bs = BsIdle
  /\ hs = HsIdle
  /\ sg = SgIdle

Next ==
  \/ \E c \in Calls, s \in CallSenders, req \in CallArgs, r \in CallRandoms :
       Invoke(c, s, req, r)
  \/ \E c \in Calls : HeadersArrive(c)
  \/ \E c \in Calls : NetworkFail(c)
  \/ \E c \in Calls, res \in Responses : BodyArrive(c, res)
  \/ \E c \in Calls : BodyFail(c)
  \/ \E c \in Calls : TimeoutElapses(c)

Spec == Init /\ [][Next]_vars

\* The calls under the one thing the runtime guarantees: a timeout set by
\* setTimeout elapses.  The node and the network owe nothing.
SpecLive == Spec /\ \A c \in Calls : WF_vars(TimeoutElapses(c))

(***************************************************************************)
(* SpecPayload: one call of a sender.  bs holds the arguments, then the    *)
(* transformed parameters, then the payload, then what the call comes to   *)
(* once the node has answered.                                             *)
(***************************************************************************)
ArgValues == {Undefined, JStr("k1"), JStr("bad"), JNum(5)}

InitPayload ==
  /\ ti = TiIdle
  /\ ss = SsIdle
  /\ ud = UdIdle
  /\ pk = PkIdle
  /\ call = [c \in Calls |-> IdleCall]
  /\ cache = {}
  /\ hs = HsIdle
  /\ sg = SgIdle
  /\ \E s \in Senders, req \in SeqsUpTo(ArgValues, MaxArgs), r \in RandomDraws :
       bs = [pc |-> "called", sender |-> s, req |-> req, random10000 |-> r,
             params |-> <<>>, payload |-> NoPayload, failure |-> Undefined,
             outcome |-> NoOutcome, response |-> NoResponse]

\* lines 153-161: the arguments are padded and transformed.
TransformParams ==
  /\ bs.pc = "called"
  /\ LET results == TransformArgs(bs.req, bs.sender.inTransformers)
     IN  bs' = IF AllOk(results)
                 THEN [bs EXCEPT !.pc = "transformed", !.params = Unwrap(results)]
                 ELSE [bs EXCEPT !.pc = "failed", !.failure = FirstFailure(results)]
  /\ UNCHANGED <<call, cache, hs, sg, ud, pk, ti, ss>>

\* lines 151-162: the payload is built from the transformed parameters.
BuildPayload ==
  /\ bs.pc = "transformed"
  /\ bs' = [bs EXCEPT !.pc = "built",
                      !.payload = buildPayload(bs.sender.rpcMethod, bs.params, bs.random10000)]
  /\ UNCHANGED <<call, cache, hs, sg, ud, pk, ti, ss>>

\* What the node may put in the result of its answer: a text, or the page
\* of a get_cells answer, [t |-> "object", v |-> last_cursor, n |-> the
\* number of objects].  findCellsResponseTo turns every object into a cell.
CellsPage(n) == V("object", "cursor", n)
NodeResults == {JStr("r1")} \cup {CellsPage(n) : n \in {0, 5, 6, 10, 11}}

\* What the error field of an answer may hold: nothing, an error object,
\* or one of the falsy values 0, false, "" and null.
JFalse == V("boolean", "false", 0)
JNull == V("null", "", 0)
ErrorFields == {Undefined, NodeError, JNum(0), JFalse, JStr(""), JNull}

\* lines 164, 196-202: the node answers under the id of the payload; the
\* out transformer is applied to the result.
Answer(res) ==
  /\ bs.pc = "built"
  /\ res.id = bs.payload.id
  /\ bs' = [bs EXCEPT !.pc = "settled",
                      !.response = res,
                      !.outcome = SenderOutcome(HandleResponse(res, bs.payload),
                                                bs.sender.outTransformer)]
  /\ UNCHANGED <<call, cache, hs, sg, ud, pk, ti, ss>>

NextPayload ==
  \/ TransformParams
  \/ BuildPayload
  \/ \E res \in [id : {bs.payload.id}, error : ErrorFields,
                  result : NodeResults] : Answer(res)

SpecPayload == InitPayload /\ [][NextPayload]_vars

(***************************************************************************)
(* The RPC transport contract.                                             *)
(***************************************************************************)
Mismatched(c) == call[c].gotResponse /\ call[c].response.id # call[c].payload.id

\* C1: a send call whose response carries an id other than the id of the
\* payload sent fails with the id-mismatch failure, and the result of that
\* response is not returned to the caller.
C1_IdMismatchRejected ==
  \A c \in Calls :
    Mismatched(c) =>
      /\ call[c].pc = "settled"
      /\ call[c].outcome = Throw(IdMismatchError)

C1_Witness ==
  \E c \in Calls :
    /\ Mismatched(c)
    /\ call[c].response.result # Undefined
    /\ call[c].outcome.kind = "throw"

\* The exceptions of the transport itself: fetch's rejections and the JSON
\* parser's.
RawTransportExceptions == {"TypeError", "AbortError", "SyntaxError"}

\* C2: every failure of an RPC call reaches the caller as a failure of the
\* taxonomy: a node-reported error carries the node's code and message, and
\* no exception of the transport is thrown to the caller as it is.
C2_TypedFailures ==
  \A c \in Calls :
    call[c].outcome.kind = "throw" =>
      /\ call[c].outcome.value.t \notin RawTransportExceptions
      /\ (call[c].gotResponse /\ ~Mismatched(c) /\ Truthy(call[c].response.error)) =>
           /\ call[c].outcome.value.n = call[c].response.error.n
           /\ call[c].outcome.value.v = call[c].response.error.v

\* C3: once the timeout of a call has elapsed the call is no longer in
\* flight, and a call that settled after its timeout had elapsed failed by
\* the abort: no response is delivered to it.
C3_TimeoutCancels ==
  \A c \in Calls :
    call[c].expired =>
      /\ call[c].pc = "settled"
      /\ call[c].lateSettle =>
           /\ ~call[c].gotResponse
           /\ call[c].outcome.kind = "throw"

\* C4: the expiry of one call's timeout changes that call only: every other
\* call, in flight or not, is left exactly as it was, so it still completes
\* with the response to its own request.
C4_ExpiryCancelsOneCall ==
  [][\A c \in Calls :
       (~call[c].expired /\ call'[c].expired) =>
         \A d \in Calls \ {c} : call'[d] = call[d]]_vars

C4_Witness ==
  \E c, d \in Calls :
    /\ c # d
    /\ call[c].outcome.value.t = "AbortError"
    /\ call[d].pc = "settled"
    /\ ~call[d].expired
    /\ call[d].outcome.kind = "return"

\* C5: a call that met a response with a mismatched id leaves no entry in
\* the cache.
C5_MismatchLeavesCache ==
  \A c \in Calls :
    Mismatched(c) => ~ \E e \in cache : e.by = c

C5_Witness ==
  \E c \in Calls :
    /\ Mismatched(c)
    /\ ~Truthy(call[c].response.error)
    /\ call[c].outcome = Throw(IdMismatchError)
    /\ cache = {}

\* C6 as stated: every call of a sender that has settled, however it
\* settled, issued exactly one HTTP request.
C6_ExactlyOneRequest ==
  \A c \in Calls : call[c].pc = "settled" => call[c].requests = 1

\* C6 amended: a call issues at most one HTTP request, exactly one once its
\* payload is built, and none when an input transformer threw.
C6_AtMostOneRequest ==
  \A c \in Calls :
    /\ call[c].requests <= 1
    /\ call[c].pc # "idle" =>
         (call[c].requests = 1 <=> call[c].payload # NoPayload)

C6_Witness ==
  \E c \in Calls :
    /\ call[c].pc = "settled"
    /\ call[c].outcome.kind = "throw"
    /\ call[c].outcome.value.t = "TypeError"
    /\ call[c].requests = 1

\* C7: a payload built by buildPayload has exactly the fields id, jsonrpc,
\* method and params; jsonrpc is "2.0", method the requested method, params
\* the given array in its order, and id an integer.
C7_PayloadShape ==
  bs.pc = "built" =>
    /\ DOMAIN bs.payload = {"id", "jsonrpc", "method", "params"}
    /\ bs.payload.jsonrpc = "2.0"
    /\ bs.payload.method = bs.sender.rpcMethod
    /\ bs.payload.params = bs.params
    /\ IsInteger(bs.payload.id)
    /\ bs.payload.id.int \in 0..10000

C7_Witness ==
  /\ bs.pc = "built"
  /\ Len(bs.payload.params) = 3
  /\ bs.random10000.frac # 0
  /\ bs.payload.id = Num(3, 0)

(***************************************************************************)
(* The Hasher's contract.                                                  *)
(***************************************************************************)
\* C8: for every byte sequence and every split of it into a followed by b,
\* ckbHash(a, b) is the digest of one Hasher updated with a and then with
\* b, and both are ckbHash of the unsplit sequence; the instance fed in
\* chunks digests to the ckbHash of all it was fed.
C8_SplitInvariance ==
  hs.digests >= 1 =>
    LET whole == Concat(hs.chunks)
        wasm == hs.self.wasm
    IN  /\ hs.first = ckbHash(<<whole>>, wasm)
        /\ \A k \in 0..Len(whole) :
             LET a == SubSeq(whole, 1, k)
                 b == SubSeq(whole, k + 1, Len(whole))
                 single == digest(update(update(NewHasher(wasm), a).self, b).self).hex
             IN  /\ ckbHash(<<a, b>>, wasm) = single
                 /\ single = ckbHash(<<whole>>, wasm)

C8_Witness ==
  /\ hs.digests >= 1
  /\ Len(hs.chunks) = 2
  /\ hs.chunks[1] # <<>>
  /\ hs.chunks[2] # <<>>
  /\ Len(Concat(hs.chunks)) > BlockBytes

\* C9: once digest() has been called on a Hasher, the instance accepts
\* neither an update nor a second digest.
C9_DigestTerminal == hs.after = 0

(***************************************************************************)
(* The signer's contract.                                                  *)
(***************************************************************************)
NoneOwned(tx) == OwnedPositions(tx, SignerScript) = {}

\* C10 as stated: signOnlyTransaction on a transaction none of whose inputs
\* is locked by the signer's script does not fail and returns a transaction
\* equal to the one given.
C10_NoOpNeverFails ==
  (sg.pc = "done" /\ NoneOwned(sg.txLike)) =>
    /\ sg.result.kind = "return"
    /\ sg.result.tx = sg.txLike

\* C10 amended: when the signer's address and the cells of the inputs are
\* resolved, signOnlyTransaction on a transaction none of whose inputs is
\* locked by the signer's script returns a transaction equal to the one
\* given; it fails only when one of these two lookups fails, and then too
\* the transaction is left as it was.
C10_NoOpWhenResolved ==
  (sg.pc = "done" /\ NoneOwned(sg.txLike)) =>
    /\ sg.callerTx = sg.txLike
    /\ sg.result.object = sg.txLike
    /\ IF sg.env.address = "ok" /\ (sg.env.resolve = "ok" \/ sg.txLike.inputs = <<>>)
         THEN /\ sg.result.kind = "return"
              /\ sg.result.tx = sg.txLike
         ELSE /\ sg.result.kind = "throw"
              /\ sg.result.class \in {"AddressLookup", "InputResolution"}

C10_Witness ==
  /\ sg.pc = "done"
  /\ NoneOwned(sg.txLike)
  /\ Len(sg.txLike.inputs) = 2
  /\ Len(sg.txLike.witnesses) = 2
  /\ sg.env.address = "ok"
  /\ sg.env.resolve = "ok"
  /\ sg.env.signature # <<>>
  /\ sg.result.kind = "return"
  /\ sg.result.tx = sg.txLike

\* signOnlyTransaction returned with a signature packed into a witness.
Signed ==
  /\ sg.pc = "done"
  /\ sg.result.kind = "return"
  /\ sg.result.requests # <<>>

\* The position signOnlyTransaction signed at.
SignedPosition == getSignHashInfo(sg.txLike, SignerScript).position

\* The byte lengths of the locks of the witnesses of tx.
LockBytes(tx) == [i \in 1..Len(tx.witnesses) |-> Len(tx.witnesses[i].lock)]

\* C11: the lock that signOnlyTransaction writes into the witness of a
\* transaction prepared by prepareTransaction has the byte length of the
\* placeholder (85), whatever signature the key provider returned, so the
\* lock lengths of the signed transaction are those of the prepared one.
C11_LockKeepsPlaceholderLength ==
  (Signed /\ sg.prepared) =>
    /\ Len(sg.result.tx.witnesses[SignedPosition].lock) = Len(PlaceholderLock)
    /\ LockBytes(sg.result.tx) = LockBytes(sg.txLike)

\* A call of the signer ended in a failure.
SignerFailed ==
  /\ sg.pc \in {"prepared", "done"}
  /\ sg.result.kind = "throw"

\* C12: when prepareTransaction or signOnlyTransaction fails, at whatever
\* step, the transaction object the caller passed in is what it was before
\* the call.
C12_FailureLeavesCallerTx ==
  SignerFailed => sg.callerTx = sg.txLike

\* C13: every text signOnlyTransaction hands to the key provider is the
\* prefix "CKB (Bitcoin Layer) transaction: " followed by the sighash
\* digest of the transaction given; the digest alone is never handed over,
\* and the provider is asked at most once.
C13_PrefixedDigest ==
  (sg.pc = "done") =>
    /\ Len(sg.result.requests) <= 1
    /\ \A i \in 1..Len(sg.result.requests) :
         /\ sg.result.requests[i].prefix = "CKB (Bitcoin Layer) transaction: "
         /\ sg.result.requests[i].message =
              getSignHashInfo(sg.txLike, SignerScript).message

C13_Witness ==
  /\ Signed
  /\ Len(sg.result.requests) = 1
  /\ sg.result.requests[1].prefix = "CKB (Bitcoin Layer) transaction: "
  /\ Len(sg.txLike.inputs) = 2
  /\ sg.txLike.inputs[2].lock = SignerScript

\* The limit of a get_cells call: the third argument, 10 when there is none.
LimitOf(req) == Coalesce(IF Len(req) >= 3 THEN req[3] ELSE Undefined, JNum(10)).n

\* C14: a call of findCellsPagedNoCache does not return more cells than
\* the limit, the caller's or 10, whatever the node answered.
C14_AtMostLimitCells ==
  (/\ bs.pc = "settled"
   /\ bs.sender = findCellsPagedNoCache
   /\ bs.outcome.kind = "return") =>
    bs.outcome.value.n <= LimitOf(bs.req)

\* C15: in the xUDT transfer of the demo, after completeInputsByUdt and the
\* change-output step the token balance of the inputs equals that of the
\* outputs: when the inputs exceeded the outputs by d > 0, one change output
\* carrying d was appended, and when they were equal none was.
C15_UdtBalanceConserved ==
  (ud.pc = "changed") =>
    LET d == getInputsUdtBalance(ud.completed, xUdtType)
               - getOutputsUdtBalance(ud.completed, xUdtType)
        n == Len(ud.completed.outputs)
    IN  /\ getInputsUdtBalance(ud.tx, xUdtType) = getOutputsUdtBalance(ud.tx, xUdtType)
        /\ ud.tx.inputs = ud.completed.inputs
        /\ d >= 0
        /\ d > 0 =>
             /\ Len(ud.tx.outputs) = n + 1
             /\ SubSeq(ud.tx.outputs, 1, n) = ud.completed.outputs
             /\ SubSeq(ud.tx.outputsData, 1, n) = ud.completed.outputsData
             /\ ud.tx.outputs[n + 1] = [lock |-> change, type |-> xUdtType]
             /\ udtBalanceFrom(ud.tx.outputsData[n + 1]) = d
        /\ d = 0 =>
             /\ ud.tx.outputs = ud.completed.outputs
             /\ ud.tx.outputsData = ud.completed.outputsData

C15_Witness ==
  /\ ud.pc = "changed"
  /\ Len(ud.tx.inputs) = 2
  /\ Len(ud.tx.outputs) = 2
  /\ udtBalanceFrom(ud.tx.outputsData[1]) = 3
  /\ udtBalanceFrom(ud.tx.outputsData[2]) = 199

\* C16: send checks the id before the error: a response whose id differs
\* from the payload's and that carries an error fails with the id-mismatch
\* failure, not with the node's error; the node's error is what the call
\* fails with when the id matches, and only then.
C16_IdCheckBeforeErrorCheck ==
  \A c \in Calls :
    (call[c].gotResponse /\ Truthy(call[c].response.error)) =>
      /\ call[c].outcome.kind = "throw"
      /\ IF call[c].response.id # call[c].payload.id
           THEN /\ call[c].outcome.value = IdMismatchError
                /\ call[c].outcome.value # call[c].response.error
           ELSE call[c].outcome.value = call[c].response.error

C16_Witness ==
  \E c \in Calls :
    /\ Mismatched(c)
    /\ call[c].response.error = NodeError
    /\ call[c].outcome = Throw(IdMismatchError)

\* C17: a sender with n input transformers called with k arguments sends
\* max(k, n) parameters in the order of the arguments: the i-th is the i-th
\* transformer applied to the i-th argument (undefined past the last
\* argument) when there is such a transformer, the argument itself
\* otherwise.  So get_cells called with a key alone sends the order "asc"
\* and the limit 0xa, and send_transaction sends the validator as given.
C17_ParamsByPosition ==
  (bs.pc = "built") =>
    LET k == Len(bs.req)
        n == Len(bs.sender.inTransformers)
        sent == bs.payload.params
        arg(i) == IF i <= k THEN bs.req[i] ELSE Undefined
    IN  /\ Len(sent) = IF k >= n THEN k ELSE n
        /\ \A i \in 1..Len(sent) :
             sent[i] = IF i <= n
                         THEN ApplyTransformer(bs.sender.inTransformers[i], arg(i)).val
                         ELSE arg(i)
        /\ (bs.sender.rpcMethod = "get_cells" /\ k = 1) =>
             /\ sent[2] = JStr("asc")
             /\ sent[3] = V("Hex", "0xa", 0)
        /\ (bs.sender.rpcMethod = "send_transaction" /\ k >= 2) => sent[2] = bs.req[2]

C17_Witness ==
  /\ bs.pc = "built"
  /\ bs.sender = findCellsPagedNoCache
  /\ bs.req = <<JStr("k1")>>
  /\ bs.payload.params = <<V("JsonRpcSearchKey", "k1", 0), JStr("asc"), V("Hex", "0xa", 0)>>

\* C18: when signOnlyTransaction signs, the returned transaction differs
\* from the given one in the lock of the witness at the position of the
\* first input of the signer's lock group, and in nothing else: the
\* inputType and outputType of that witness, every other witness, the
\* inputs, outputs, outputsData, cellDeps and headerDeps are the given ones.
C18_OnlyLockChanges ==
  Signed =>
    LET given == sg.txLike
        signed == sg.result.tx
        position == CHOOSE i \in 1..Len(given.inputs) :
                      /\ given.inputs[i].lock = SignerScript
                      /\ \A j \in 1..(i - 1) : given.inputs[j].lock # SignerScript
    IN  /\ signed.inputs = given.inputs
        /\ signed.outputs = given.outputs
        /\ signed.outputsData = given.outputsData
        /\ signed.cellDeps = given.cellDeps
        /\ signed.headerDeps = given.headerDeps
        /\ Len(signed.witnesses) = Len(given.witnesses)
        /\ \A i \in 1..Len(given.witnesses) :
             IF i = position
               THEN /\ signed.witnesses[i].inputType = given.witnesses[i].inputType
                    /\ signed.witnesses[i].outputType = given.witnesses[i].outputType
                    /\ signed.witnesses[i].raw = given.witnesses[i].raw
                    /\ signed.witnesses[i].lock = PackLock(AdjustRecoveryId(sg.env.signature))
               ELSE signed.witnesses[i] = given.witnesses[i]

C18_Witness ==
  /\ Signed
  /\ sg.txLike.inputs[1].lock = OtherScript
  /\ Len(sg.txLike.witnesses) = 2
  /\ sg.txLike.witnesses[2].inputType = "0xaa"
  /\ sg.result.tx.witnesses[2].inputType = "0xaa"
  /\ sg.result.tx.witnesses[2].lock # sg.txLike.witnesses[2].lock
  /\ sg.result.tx.witnesses[1] = sg.txLike.witnesses[1]

\* C19: whatever the first byte v, 0..255, of the signature the key
\* provider returned, the first byte of the signature packed into the lock
\* is 31 + ((v - 27) mod 4), a value in 31..34.
C19_RecoveryByteInRange ==
  (pk.pc = "packed") =>
    /\ pk.lock[21] = 31 + ((pk.signature[1] - 27) % 4)
    /\ pk.lock[21] \in 31..34

\* The number in the four bytes of lock from offset, little-endian.
WordAt(lock, offset) == LeNum(SubSeq(lock, offset + 1, offset + 4), 4)

\* C20: the lock packed for a signature of n bytes is a well-formed offset
\* table: its total-length header, four bytes little-endian, is its length
\* 20 + n; its three offsets are 16, 20 + n and 20 + n, non-decreasing and
\* not above the total; its first field is the length n, four bytes
\* little-endian, followed by the n bytes of the signature.
C20_WellFormedEnvelope ==
  (pk.pc = "packed") =>
    LET n == Len(pk.signature)
    IN  /\ Len(pk.lock) = 20 + n
        /\ WordAt(pk.lock, 0) = Len(pk.lock)
        /\ WordAt(pk.lock, 4) = 16
        /\ WordAt(pk.lock, 8) = 20 + n
        /\ WordAt(pk.lock, 12) = 20 + n
        /\ WordAt(pk.lock, 4) <= WordAt(pk.lock, 8)
        /\ WordAt(pk.lock, 8) <= WordAt(pk.lock, 12)
        /\ WordAt(pk.lock, 12) <= WordAt(pk.lock, 0)
        /\ WordAt(pk.lock, 16) = n
        /\ SubSeq(pk.lock, 21, 20 + n) = pk.adjusted
        /\ Len(pk.adjusted) = n
        /\ \A i \in 1..Len(pk.lock) : pk.lock[i] \in 0..255

C20_Witness ==
  /\ pk.pc = "packed"
  /\ Len(pk.signature) = 65
  /\ SubSeq(pk.lock, 1, 20) =
       <<85, 0, 0, 0, 16, 0, 0, 0, 85, 0, 0, 0, 85, 0, 0, 0, 65, 0, 0, 0>>
  /\ pk.lock[21] = 32
  /\ pk.lock[22] = 17

\* C21: in the Type ID creation of the demo the args are set after
\* completeInputsByCapacity and before completeFeeChangeToLock, to the hash
\* of the first input and of the output index 0; fee completion only
\* appends inputs and outputs, so the first input of the transaction sent
\* is the input the args were computed from.
C21_TypeIdFromFirstInput ==
  /\ (ti.pc \in {"built", "completed"}) => ti.tx.outputs[1].type.args = ZeroArgs
  /\ (ti.pc \in {"typed", "balanced", "sent"}) =>
       /\ ti.typed.inputs # <<>>
       /\ ti.typed.outputs[1].type.args =
            ckbHash(<<InputBytes(ti.typed.inputs[1]), Zeros(8)>>, TRUE)
       /\ SubSeq(ti.tx.inputs, 1, Len(ti.typed.inputs)) = ti.typed.inputs
       /\ SubSeq(ti.tx.outputs, 1, Len(ti.typed.outputs)) = ti.typed.outputs
  /\ (ti.pc = "sent") =>
       /\ ti.sent.inputs[1] = ti.typed.inputs[1]
       /\ ti.sent.outputs[1].type =
            TypeIdScript(ckbHash(<<InputBytes(ti.sent.inputs[1]), Zeros(8)>>, TRUE))

C21_Witness ==
  /\ ti.pc = "sent"
  /\ Len(ti.typed.inputs) = 2
  /\ Len(ti.sent.inputs) = 3
  /\ Len(ti.sent.outputs) = 2
  /\ ti.sent.inputs[1] = ti.typed.inputs[1]
  /\ ti.sent.outputs[1].type.args # ZeroArgs

\* The out point of the seal: output 0 of the seal transaction.
SealOutPoint == OutPoint(TxHash(ss.susTx), 0)

C23_ErrorFieldNeverSuccess ==
  (bs.pc = "settled" /\ bs.response.error # Undefined) => bs.outcome.kind = "throw"

\* C23 amended: a response whose error field is truthy is not returned as a
\* successful result, the call fails with the value of the field; an error
\* field that holds 0, false, the empty string or null counts as absent and
\* the call comes to what the out transformer makes of the result.
C23_TruthyErrorNeverSuccess ==
  (bs.pc = "settled") =>
    IF Truthy(bs.response.error)
      THEN bs.outcome = Throw(bs.response.error)
      ELSE /\ bs.response.error \in {Undefined, JNum(0), JFalse, JStr(""), JNull}
           /\ bs.outcome = SenderOutcome(Return(bs.response.result),
                                         bs.sender.outTransformer)

C23_Witness ==
  /\ bs.pc = "settled"
  /\ bs.response.error = NodeError
  /\ bs.response.result = JStr("r1")
  /\ bs.sender = getTransactionNoCache
  /\ bs.outcome = Throw(NodeError)

\* A request of call c is outstanding: sent and not settled.
Outstanding(c) == call[c].pc \in {"fetching", "reading"}

\* C24: two requests outstanding at the same time never carry the same
\* id, and a request issued once another call has timed out carries an id
\* other than that of the timed-out request.
C24_DistinctIds ==
  /\ [](\A c, d \in Calls :
          (c # d /\ Outstanding(c) /\ Outstanding(d)) =>
            call[c].payload.id # call[d].payload.id)
  /\ [][\A c, d \in Calls :
          (/\ c # d
           /\ call[c].outcome.value.t = "AbortError"
           /\ call[d].pc = "idle"
           /\ call'[d].pc = "fetching") =>
            call'[d].payload.id # call[c].payload.id]_vars

\* C25: every send call settles in the end: when the node never finishes
\* answering, be it that the headers arrive and the body never completes,
\* the call fails once its timeout has elapsed.
C25_EverySendSettles ==
  \A c \in Calls : Outstanding(c) ~> (call[c].pc = "settled")

\* C26: once a send call has settled, for whatever reason, its abort timer
\* is no longer pending, and no abort has fired on a call that settled
\* otherwise than by the abort.
C26_NoTimerAfterSettle ==
  \A c \in Calls :
    (call[c].pc = "settled") =>
      /\ ~call[c].timerPending
      /\ call[c].aborted => call[c].outcome.value.t = "AbortError"

\* The signer's address and the cells of the inputs were resolved in the
\* last call.
LookupsResolved ==
  /\ sg.env.address = "ok"
  /\ sg.env.resolve = "ok" \/ sg.txLike.inputs = <<>>

\* C27 as stated: signOnlyTransaction asks the key provider for a signature
\* at most once per call, exactly once when the transaction has an input
\* locked by the signer's script, and never when it has none.
C27_OncePerOwnedInput ==
  (sg.pc = "done") =>
    Len(sg.result.requests) = IF NoneOwned(sg.txLike) THEN 0 ELSE 1

\* C27 amended: signOnlyTransaction asks the key provider at most once per
\* call; exactly once, with the prefixed message of the sign hash info, when
\* the transaction has an input locked by the signer's script and the
\* signer's address and the cells of the inputs were resolved; never when no
\* input is locked by the signer's script or one of the two lookups failed.
C27_OnceWhenOwnedAndResolved ==
  (sg.pc = "done") =>
    /\ Len(sg.result.requests) <= 1
    /\ IF ~NoneOwned(sg.txLike) /\ LookupsResolved
         THEN sg.result.requests =
                <<SigningText(getSignHashInfo(sg.txLike, SignerScript).message)>>
         ELSE sg.result.requests = <<>>

C27_Witness ==
  /\ sg.pc = "done"
  /\ Cardinality(OwnedPositions(sg.txLike, SignerScript)) = 2
  /\ LookupsResolved
  /\ sg.env.signature # <<>>
  /\ sg.result.kind = "return"
  /\ Len(sg.result.requests) = 1

====
